---- MODULE Spec2Model ----
(***************************************************************************)
(* pyqlizator/connection.py: the Socket wrapper and the Connection that    *)
(* drives the request/reply protocol over it.  One Connection object, the  *)
(* server at the other end of its TCP stream, and the caller that issues   *)
(* commands and pulls the row generators the commands return.              *)
(***************************************************************************)
EXTENDS Integers, Sequences, FiniteSets, TLC

(* ------------------------------ bounds --------------------------------- *)
\* commands for which an envelope is sent (the connect handshake is the first)
MaxCmds == 3
\* Row objects in one well-formed query reply
MaxRows == 2
\* the read size of Socket.recv (buf_size), in units of one encoded reply object
BufSize == 2

(* ------------------------- program constants --------------------------- *)
OK == 0
UNKNOWN_ERROR == 1
INVALID_QUERY == 5
NETWORK_ERROR == 100
DEFAULT_MESSAGE == "Unknown error."

None == "None"
\* names bound on a Connection instance: the class body and the assignments
\* to self; the module-level import Error is not among them
ConnectionAttrs ==
    { "SQLITE_DATE_TYPES", "MAX_VARIABLE_NUMBER", "EXECUTE", "EXECUTE_AND_FETCH",
      "OK", "UNKNOWN_ERROR", "INVALID_REQUEST", "DESERIALIZATION_ERROR",
      "DATABASE_OPENING_ERROR", "DATABASE_NOT_FOUND", "INVALID_QUERY",
      "NETWORK_ERROR", "DEFAULT_MESSAGE", "socket_cls",
      "_to_primitive_converters", "_from_primitive_converters",
      "to_primitive", "from_primitive", "register_to_primitive",
      "register_from_primitive", "_send", "_recv", "_construct_row",
      "_check_status", "_process_reply", "_connect_to_database", "_command",
      "execute", "fetch", "closed", "close", "drop_database",
      "_dbname", "_dbpath", "_socket", "_meta_info" }

(* ----------------------------- exceptions ------------------------------ *)
\* what a call hands back to its caller: a value or a raised exception
NoExc == [exc |-> "none", code |-> -1, msg |-> "", cause |-> ""]
\* exceptions.Error(code, message, cause)
Error(code, msg, cause) == [exc |-> "Error", code |-> code, msg |-> msg, cause |-> cause]
\* a builtin exception raised by the interpreter
Builtin(name) == [exc |-> name, code |-> -1, msg |-> "", cause |-> ""]
\* the exceptions of the transport the code catches: socket.error, of which
\* socket.timeout is a subclass
SockExcs == {"socket.error"}

(* --------------------------- reply objects ----------------------------- *)
\* a dict.get(key, default) on an optional field kept as <<>> or <<v>>
Get(opt, default) == IF opt = <<>> THEN default ELSE opt[1]

\* decoded msgpack values: ints, strings and lists, tagged with their type
IntV(n) == [t |-> "int", v |-> n]
ListV(s) == [t |-> "list", v |-> s]
Pair(name, type) == ListV(<<name, type>>)

\* a reply object as msgpack decodes it; `of` is the command in whose reply
\* the server sent it (0: decoded from a misaligned byte stream)
StatusObj(status, message, c) ==
    [k |-> "dict", status |-> status, message |-> message, items |-> <<>>, of |-> c]
ListObj(items, c) ==
    [k |-> "list", status |-> <<>>, message |-> <<>>, items |-> items, of |-> c]

Statuses ==
    { [status |-> <<OK>>, message |-> <<>>],
      [status |-> <<INVALID_QUERY>>, message |-> <<"no such table">>],
      [status |-> <<UNKNOWN_ERROR>>, message |-> <<>>],
      [status |-> <<>>, message |-> <<>>] }
\* the Metadata objects of the replies: two columns, of distinct names and of
\* one name (SELECT t.a, u.a ...)
Metas ==
    { <<Pair("a", "int"), Pair("b", "date")>>,
      <<Pair("a", "int"), Pair("a", "date")>> }
\* the i-th Row object of a reply: n values, different in every row
RowNo(i, n) == [j \in 1..n |-> IntV(2 * i + j)]

\* the reply streams the server answers a connect or drop envelope with: one
\* Status object
StatusReplies(c) == { <<StatusObj(s.status, s.message, c)>> : s \in Statuses }

\* Metadata, then k rows of as many values, then the Status OK
WellFormedReplies(c) ==
    { <<ListObj(m, c)>> \o [i \in 1..k |-> ListObj(RowNo(i, Len(m)), c)]
        \o <<StatusObj(<<OK>>, <<>>, c)>> :
      m \in Metas, k \in 0..MaxRows }
\* a Row object with no Metadata object before it; rows cut short by an error
OtherReplies(c) ==
    { <<ListObj(RowNo(1, 1), c), StatusObj(<<OK>>, <<>>, c)>>,
      <<ListObj(<<Pair("a", "int")>>, c), ListObj(RowNo(1, 1), c),
        StatusObj(<<INVALID_QUERY>>, <<"no such table">>, c)>> }
\* objects after an error status; a Row object of no values; Row objects
\* shorter and longer than the Metadata, and a second Metadata object
OddReplies(c) ==
    { <<ListObj(<<Pair("a", "int")>>, c), ListObj(RowNo(1, 1), c),
        StatusObj(<<INVALID_QUERY>>, <<"no such table">>, c), ListObj(RowNo(2, 1), c)>>,
      <<ListObj(<<Pair("a", "int")>>, c), ListObj(<<>>, c), StatusObj(<<OK>>, <<>>, c)>>,
      <<ListObj(<<Pair("a", "int"), Pair("b", "date")>>, c), ListObj(RowNo(1, 1), c),
        ListObj(<<Pair("b", "date")>>, c), ListObj(RowNo(2, 2), c),
        StatusObj(<<OK>>, <<>>, c)>> }
\* the reply streams the server answers a query envelope with
QueryReplies(c) ==
    { r \in StatusReplies(c) : r[1].message # <<>> \/ r[1].status = <<OK>> }
    \cup WellFormedReplies(c) \cup OtherReplies(c) \cup OddReplies(c)
Replies(ep, c) == IF ep = "query" THEN QueryReplies(c) ELSE StatusReplies(c)

(* ------------------------- value conversion ---------------------------- *)
\* the type names and converters the caller of a connection registers
TypeNames == {"date"}
Fns == {"to_date"}
\* fn(x) for a registered converter fn: what it returns is up to fn
Apply(fn, x) == [t |-> fn, v |-> x]

\* Connection.from_primitive under the registry reg
from_primitive(reg, value, type_name) ==
    IF type_name \in DOMAIN reg THEN Apply(reg[type_name], value) ELSE value

\* a native value of the Python type t
Native(t, n) == [t |-> t, v |-> n]

\* to_primitive as it would be if it looked the converter up along the
\* classes type(obj) inherits from: datetime.datetime is a datetime.date
to_primitive_by_base(reg, o) ==
    IF o.t \in DOMAIN reg THEN Apply(reg[o.t], o)
    ELSE IF o.t = "datetime" /\ "date" \in DOMAIN reg THEN Apply(reg["date"], o)
    ELSE o

\* Connection.to_primitive under the registry reg
to_primitive(reg, o) ==
    IF o.t \in DOMAIN reg THEN Apply(reg[o.t], o) ELSE o

(* --------------------------- reply classifier -------------------------- *)
Min(a, b) == IF a < b THEN a ELSE b

\* _construct_row as it would be if a column name seen before kept its value
RECURSIVE ZipLoopKeepFirst(_, _, _, _, _)
ZipLoopKeepFirst(meta, data, conv, i, row) ==
    IF i > Min(Len(meta), Len(data)) THEN [out |-> NoExc, row |-> row]
    ELSE ZipLoopKeepFirst(meta, data, conv, i + 1,
             row @@ (meta[i].v[1] :> from_primitive(conv, data[i], meta[i].v[2])))

\* _construct_row as it would be if zip refused sequences of different lengths
RECURSIVE ZipLoopStrict(_, _, _, _, _)
ZipLoopStrict(meta, data, conv, i, row) ==
    IF Len(meta) # Len(data) THEN [out |-> Builtin("ValueError"), row |-> row]
    ELSE IF i > Len(meta) THEN [out |-> NoExc, row |-> row]
    ELSE ZipLoopStrict(meta, data, conv, i + 1,
             (meta[i].v[1] :> from_primitive(conv, data[i], meta[i].v[2])) @@ row)

\* the loop of _construct_row over zip(meta, data) from position i on; row is
\* the dict built so far.  A result is [out: exception or NoExc, row: dict]
RECURSIVE ZipLoop(_, _, _, _, _)
ZipLoop(meta, data, conv, i, row) ==
    IF i > Min(Len(meta), Len(data)) THEN [out |-> NoExc, row |-> row]
    ELSE IF meta[i].t # "list" THEN [out |-> Builtin("TypeError"), row |-> row]
    ELSE IF Len(meta[i].v) # 2 THEN [out |-> Builtin("ValueError"), row |-> row]
    ELSE ZipLoop(meta, data, conv, i + 1,
                 (meta[i].v[1] :> from_primitive(conv, data[i], meta[i].v[2])) @@ row)

\* Connection._construct_row: meta_info is <<>> (None) or <<Metadata object>>
construct_row(meta_info, data, conv) ==
    IF meta_info = <<>> THEN [out |-> Builtin("TypeError"), row |-> <<>>]
    ELSE ZipLoop(meta_info[1].items, data.items, conv, 1, <<>>)

\* the expression self.Error(status, message) of _check_status
SelfError(status, message) ==
    IF "Error" \in ConnectionAttrs THEN Error(status, message, "")
    ELSE Builtin("AttributeError")

\* _check_status as it would be if it returned None whatever the status
check_status_silent(data) == NoExc

\* Connection._check_status: the exception it raises, or NoExc
check_status(data) ==
    LET status == Get(data.status, UNKNOWN_ERROR) IN
    IF status # OK THEN SelfError(status, Get(data.message, DEFAULT_MESSAGE))
    ELSE NoExc

\* Connection._process_reply: [out: exception or NoExc, val: <<>> for None or
\* <<row>>, meta: the new self._meta_info]
process_reply(data, meta_info, conv) ==
    IF data.k = "dict"
    THEN [out |-> check_status(data), val |-> <<>>, meta |-> meta_info]
    ELSE IF data.items # <<>> /\ data.items[Len(data.items)].t = "list"
    THEN [out |-> NoExc, val |-> <<>>, meta |-> <<data>>]
    ELSE LET r == construct_row(meta_info, data, conv) IN
         [out |-> r.out, val |-> IF r.out = NoExc THEN <<r.row>> ELSE <<>>,
          meta |-> meta_info]

\* `if reply:` in _recv
Truthy(val) == val # <<>> /\ DOMAIN val[1] # {}

(* ------------------------------- state --------------------------------- *)
VARIABLES
    obj,        \* the Connection object: "none", "init" (in __init__), "live", "failed"
    socket,     \* self._socket: None or "Socket"
    chan,       \* the Socket's OS socket: "none", "open", "eof" (the peer has
                \* closed the stream), "closed" (Socket.close has run)
    meta_info,  \* self._meta_info: <<>> for None/unset, or <<Metadata object>>
    conv,       \* Connection._from_primitive_converters
    to_conv,    \* Connection._to_primitive_converters
    call,       \* the last call of a classmethod of Connection, with its result
    ncmd,       \* envelopes sent so far
    gens,       \* the generator objects of _recv, by command
    run,        \* the generator that is executing, 0 when the caller is
    wire,       \* the encoded objects the server has sent that no read has returned yet
    hist,       \* by command: envelope, reply, and what its generator did
    res         \* the caller's operation in progress, or the last one, and its result

vars == <<obj, socket, chan, meta_info, conv, to_conv, call, ncmd, gens, run,
          wire, hist, res>>
\* all but the class attributes and the classmethod calls
connvars == <<obj, socket, chan, meta_info, ncmd, gens, run, wire, hist, res>>

Cmds == 1..MaxCmds
closed == socket = None

\* a generator of _recv: st "new" (not started), "susp" (at the yield), "done";
\* pos is where it resumes, unp what its Unpacker holds, sk the state of its
\* Socket.recv generator, drv who pulls it (the caller, or list())
NoGen == [st |-> "none", pos |-> "start", unp |-> <<>>, sk |-> "none", drv |-> "caller"]
\* ep: the envelope's endpoint; reply: the objects the server answers with;
\* got: the objects the generator decoded; rows: what it yielded, each with
\* the Metadata and Row object it was built of and the place of the Row
\* object in got; end: how it ended; pre: every
\* earlier command was drained when the envelope was sent
NoHist == [ep |-> "", reply |-> <<>>, got |-> <<>>, rows |-> <<>>,
           end |-> <<>>, pre |-> FALSE]
\* an operation of the caller as it starts; tf: the transport exception the
\* operation met, if any
Op(name, c) == [op |-> name, c |-> c, out |-> NoExc, val |-> <<>>, tf |-> ""]

\* a call cls.op(...) made through `via`, the class or an instance of it
Call(op, via, key, fn, arg, result) ==
    [op |-> op, via |-> via, key |-> key, fn |-> fn, arg |-> arg, result |-> result]
NoCall == Call("", "", "", "", <<>>, <<>>)

\* every earlier command's generator is exhausted and has decoded all the
\* objects of its reply
AllDrained ==
    \A c \in 1..ncmd : gens[c].st = "done" /\ hist[c].got = hist[c].reply

Init ==
    /\ obj = "none"
    /\ socket = None
    /\ chan = "none"
    /\ meta_info = <<>>
    /\ conv = <<>>
    /\ to_conv = <<>>
    /\ call = NoCall
    /\ ncmd = 0
    /\ gens = [c \in Cmds |-> NoGen]
    /\ run = 0
    /\ wire = <<>>
    /\ hist = [c \in Cmds |-> NoHist]
    /\ res = Op("", 0)

(* ------------------------------ sending -------------------------------- *)
\* the except clause of _send: the new self._socket and what is raised
send_except(e) == [socket |-> None, out |-> Error(NETWORK_ERROR, e, e)]

\* _send as it would be if it opened a new channel when it has none
send_on_none_reconnect == [socket |-> "Socket", out |-> NoExc]

\* self._socket.send when self._socket is None
send_on_none == [socket |-> None, out |-> Builtin("AttributeError")]

\* Connection._send of the envelope of endpoint ep, then what the caller of
\* _send does with self._recv(): drv = "list" drains it, drv = "caller"
\* returns it
Send(name, ep, drv) ==
    \/ /\ socket = None
       /\ res' = [Op(name, 0) EXCEPT !.out = send_on_none.out]
       /\ socket' = send_on_none.socket
       /\ UNCHANGED <<ncmd, gens, run, wire, hist>>
    \/ /\ socket # None
       /\ \E e \in SockExcs :                 \* sendall raises
            /\ res' = [Op(name, 0) EXCEPT !.out = send_except(e).out, !.tf = e]
            /\ socket' = send_except(e).socket
       /\ UNCHANGED <<ncmd, gens, run, wire, hist>>
    \/ /\ socket # None
       /\ chan = "open"                       \* a peer that is there answers
       /\ ncmd < MaxCmds
       /\ LET c == ncmd + 1 IN
          /\ \E reply \in Replies(ep, c) :
               /\ wire' = wire \o reply
               /\ hist' = [hist EXCEPT ![c] = [NoHist EXCEPT !.ep = ep, !.reply = reply,
                                                 !.pre = AllDrained]]
          /\ ncmd' = c
          /\ gens' = [gens EXCEPT ![c] = [NoGen EXCEPT !.st = "new", !.drv = drv]]
          /\ run' = IF drv = "list" THEN c ELSE 0
          /\ res' = Op(name, c)
       /\ UNCHANGED socket

(* ---------------------------- the generator ---------------------------- *)
StopIteration == Builtin("StopIteration")

\* _recv as it would be without line 107
recv_begin_keep(meta) == meta

\* lines 106-107 of _recv: the self._meta_info a reply cycle starts with
recv_begin(meta) == <<>>

\* _recv as it would be with a bare `except Exception`
recv_catches_all(e) == TRUE

\* the except clause of _recv catches the exception e
recv_catches(e) == e.exc \in SockExcs

\* _recv as it would be without line 116
recv_except_leak(e) == [socket |-> socket, out |-> Error(NETWORK_ERROR, e, e)]

\* the except clause of _recv: the new self._socket and what is raised
recv_except(e) == [socket |-> None, out |-> Error(NETWORK_ERROR, e, e)]

\* an exception e raised inside the try block of _recv: what leaves the
\* generator, and the self._socket it leaves behind
recv_raise(e) ==
    IF recv_catches(e) THEN recv_except(e.exc) ELSE [socket |-> socket, out |-> e]

\* the last element of a non-empty sequence
Last(s) == s[Len(s)]

\* the generator of command c ends with `out` (StopIteration: it returned).
\* list() turns the StopIteration into its return; __init__ raises what
\* _connect_to_database raises
Finish(c, out, tf, g, h) ==
    /\ gens' = [gens EXCEPT ![c] = [g EXCEPT !.st = "done"]]
    /\ hist' = [hist EXCEPT ![c] = [h EXCEPT !.end = <<out>>]]
    /\ run' = 0
    /\ res' = [res EXCEPT !.out = IF g.drv = "list" /\ out = StopIteration
                                  THEN NoExc ELSE out,
                          !.val = <<>>, !.tf = tf]
    /\ obj' = IF obj # "init" THEN obj
              ELSE IF out = StopIteration THEN "live" ELSE "failed"

\* lines 112-114 of _recv on the decoded object o; unp is what the unpacker
\* still holds
Process(c, o, unp) ==
    LET r == process_reply(o, meta_info, conv)
        g == [gens[c] EXCEPT !.unp = unp]
        h == [hist[c] EXCEPT !.got = Append(@, o)]
        item == [row |-> r.val[1], meta |-> r.meta, data |-> o, at |-> Len(h.got)]
        h2 == [h EXCEPT !.rows = Append(@, item)]
    IN  /\ meta_info' = r.meta
        /\ IF r.out # NoExc THEN
                /\ Finish(c, recv_raise(r.out).out, "", g, h)
                /\ socket' = recv_raise(r.out).socket
           ELSE IF Truthy(r.val) THEN
                /\ hist' = [hist EXCEPT ![c] = h2]
                /\ IF g.drv = "caller"
                   THEN /\ gens' = [gens EXCEPT ![c] = [g EXCEPT !.st = "susp"]]
                        /\ run' = 0
                        /\ res' = [res EXCEPT !.val = r.val]
                   ELSE /\ gens' = [gens EXCEPT ![c] = g]
                        /\ UNCHANGED <<run, res>>
                /\ UNCHANGED <<obj, socket>>
           ELSE /\ gens' = [gens EXCEPT ![c] = g]
                /\ hist' = [hist EXCEPT ![c] = h]
                /\ UNCHANGED <<run, res, obj, socket>>

\* _recv from its first line to the call self._socket.recv()
GenStart(c) ==
    /\ run = c
    /\ gens[c].pos = "start"
    /\ meta_info' = recv_begin(meta_info)
    /\ IF socket = None
       THEN Finish(c, Builtin("AttributeError"), "", gens[c], hist[c])
       ELSE /\ gens' = [gens EXCEPT ![c] = [@ EXCEPT !.pos = "outer", !.sk = "fresh"]]
            /\ UNCHANGED <<hist, run, res, obj>>
    /\ UNCHANGED <<socket, chan, conv, to_conv, call, ncmd, wire>>

\* one turn of `for obj in unpacker`
GenInner(c) ==
    /\ run = c
    /\ gens[c].pos = "inner"
    /\ LET unp == gens[c].unp IN
       \/ /\ unp # <<>>
          /\ Process(c, Head(unp), Tail(unp))
       \/ /\ unp = <<>>
          /\ gens' = [gens EXCEPT ![c] = [@ EXCEPT !.pos = "outer"]]
          /\ UNCHANGED <<meta_info, hist, run, res, obj, socket>>
    /\ UNCHANGED <<chan, conv, to_conv, call, ncmd, wire>>

\* Socket.recv as it would be without lines 29-30
recv_more_always(n) == "full"

\* lines 26-30 of Socket.recv: where the generator stands after it has
\* yielded a chunk of n units: "short" when it will return on its next
\* resumption, "full" when it will read again
recv_more(n) == IF n < BufSize THEN "short" ELSE "full"

\* one turn of `for data in self._socket.recv()`: the next step of Socket.recv
\* and, for a chunk, unpacker.feed; the except clause of _recv on a failure
GenOuter(c) ==
    /\ run = c
    /\ gens[c].pos = "outer"
    /\ \/ /\ gens[c].sk = "short"            \* lines 29-30: the last chunk was short
          /\ Finish(c, StopIteration, "", [gens[c] EXCEPT !.sk = "done"], hist[c])
          /\ UNCHANGED <<socket, wire, chan>>
       \/ /\ gens[c].sk # "short"
          /\ \/ /\ \E e \in SockExcs :         \* reset, timeout; EBADF once closed
                     /\ Finish(c, recv_raise(Builtin(e)).out, e,
                               [gens[c] EXCEPT !.sk = "done"], hist[c])
                     /\ socket' = recv_raise(Builtin(e)).socket
                /\ UNCHANGED <<wire, chan>>
             \/ /\ chan \in {"open", "eof"}  \* lines 22-23: peer closed, no bytes
                /\ wire = <<>>
                /\ Finish(c, StopIteration, "", [gens[c] EXCEPT !.sk = "done"], hist[c])
                /\ chan' = "eof"
                /\ UNCHANGED <<socket, wire>>
             \/ /\ chan \in {"open", "eof"}
                /\ wire # <<>>
                /\ \E n \in 1..Min(BufSize, Len(wire)) :
                     /\ wire' = SubSeq(wire, n + 1, Len(wire))
                     /\ gens' = [gens EXCEPT ![c] =
                                   [@ EXCEPT !.unp = @ \o SubSeq(wire, 1, n),
                                             !.sk = recv_more(n),
                                             !.pos = "inner"]]
                /\ UNCHANGED <<socket, hist, run, res, obj, chan>>
    /\ UNCHANGED <<meta_info, conv, to_conv, call, ncmd>>

(* --------------------------- the operations ---------------------------- *)
\* Connection.__init__ up to the end of _connect_to_database's _send
Construct ==
    /\ obj = "none"
    /\ \/ /\ \E e \in SockExcs :             \* lines 65-67: socket_cls raises
               res' = [Op("init", 0) EXCEPT !.out = Error(NETWORK_ERROR, e, e)]
          /\ obj' = "failed"
          /\ UNCHANGED <<socket, chan, ncmd, gens, run, wire, hist>>
       \/ /\ chan' = "open"
          /\ \E e \in SockExcs :             \* _send raises
               /\ res' = [Op("init", 0) EXCEPT !.out = send_except(e).out, !.tf = e]
               /\ socket' = send_except(e).socket
          /\ obj' = "failed"
          /\ UNCHANGED <<ncmd, gens, run, wire, hist>>
       \/ /\ chan' = "open"
          /\ socket' = "Socket"
          /\ \E reply \in Replies("connect", 1) :
               /\ wire' = reply
               /\ hist' = [hist EXCEPT ![1] =
                             [NoHist EXCEPT !.ep = "connect", !.reply = reply,
                                            !.pre = TRUE]]
          /\ ncmd' = 1
          /\ gens' = [gens EXCEPT ![1] = [NoGen EXCEPT !.st = "new", !.drv = "list"]]
          /\ run' = 1
          /\ res' = Op("init", 1)
          /\ obj' = "init"
    /\ UNCHANGED <<meta_info, conv, to_conv, call>>

\* the caller holds a Connection and no call is in progress
Idle == run = 0 /\ obj = "live"

\* execute as it would be if _command returned list(self._recv())
execute_eager ==
    /\ Idle
    /\ Send("execute", "query", "list")
    /\ UNCHANGED <<obj, chan, meta_info, conv, to_conv, call>>

execute ==
    /\ Idle
    /\ Send("execute", "query", "caller")
    /\ UNCHANGED <<obj, chan, meta_info, conv, to_conv, call>>

fetch ==
    /\ Idle
    /\ Send("fetch", "query", "caller")
    /\ UNCHANGED <<obj, chan, meta_info, conv, to_conv, call>>

\* drop_database as it would be if it returned self._recv() as _command does
drop_database_lazy ==
    /\ Idle
    /\ Send("drop_database", "drop", "caller")
    /\ UNCHANGED <<obj, chan, meta_info, conv, to_conv, call>>

drop_database ==
    /\ Idle
    /\ Send("drop_database", "drop", "list")
    /\ UNCHANGED <<obj, chan, meta_info, conv, to_conv, call>>

\* next() on the generator a command returned
Pull(c) ==
    /\ Idle
    /\ gens[c].drv = "caller"
    /\ \/ /\ gens[c].st \in {"new", "susp"}
          /\ run' = c
          /\ res' = Op("pull", c)
       \/ /\ gens[c].st = "done"
          /\ res' = [Op("pull", c) EXCEPT !.out = StopIteration]
          /\ UNCHANGED run
    /\ UNCHANGED <<obj, socket, chan, meta_info, conv, to_conv, call, ncmd, gens, wire, hist>>

\* Connection.close, with Socket.close
close ==
    /\ Idle
    /\ \/ /\ socket = None                   \* None.close: AttributeError
          /\ res' = [Op("close", 0) EXCEPT !.out = Builtin("AttributeError")]
          /\ UNCHANGED <<socket, chan>>
       \/ /\ socket # None                   \* line 16: shutdown raises
          /\ res' = [Op("close", 0) EXCEPT !.out = Builtin("socket.error")]
          /\ UNCHANGED <<socket, chan>>
       \/ /\ socket # None
          /\ chan' = "closed"
          /\ socket' = None
          /\ res' = Op("close", 0)
    /\ UNCHANGED <<obj, meta_info, conv, to_conv, call, ncmd, gens, run, wire, hist>>

\* Connection.register_from_primitive
register_from_primitive(via, type_name, fn) ==
    /\ conv' = (type_name :> fn) @@ conv
    /\ call' = Call("register_from_primitive", via, type_name, fn, <<>>, <<>>)
    /\ UNCHANGED <<connvars, to_conv>>

\* the caller registers its converters on the class before it makes a
\* connection
Register ==
    /\ obj = "none"
    /\ \E t \in TypeNames, fn \in Fns : register_from_primitive("Connection", t, fn)

Next ==
    \/ Construct
    \/ execute
    \/ fetch
    \/ drop_database
    \/ \E c \in Cmds : Pull(c)
    \/ close
    \/ Register
    \/ \E c \in Cmds : GenStart(c)
    \/ \E c \in Cmds : GenInner(c)
    \/ \E c \in Cmds : GenOuter(c)

Spec == Init /\ [][Next]_vars

(* ------------------- the converter registries alone -------------------- *)
\* through what the classmethods are called: the class, or an instance
Receivers == {"Connection", "self"}
\* keys and converters for the registries: type names of result columns,
\* Python types of query parameters
ConvTypeNames == {"date", "datetime"}
TypeObjects == {"date", "datetime"}
ConvFns == Fns \cup {"to_iso"}
\* the values converted: wire values, and native values of a registered
\* type, of a subclass of it, and of a type never registered
WireValues == {IntV(1)}
NativeValues == {Native("date", 1), Native("datetime", 1), Native("int", 1)}

\* Connection.register_to_primitive
register_to_primitive(via, type_object, fn) ==
    /\ to_conv' = (type_object :> fn) @@ to_conv
    /\ call' = Call("register_to_primitive", via, type_object, fn, <<>>, <<>>)
    /\ UNCHANGED <<connvars, conv>>

\* a call of Connection.from_primitive
call_from_primitive(via, value, type_name) ==
    /\ call' = Call("from_primitive", via, type_name, "", value,
                    from_primitive(conv, value, type_name))
    /\ UNCHANGED <<connvars, conv, to_conv>>

\* a call of Connection.to_primitive
call_to_primitive(via, o) ==
    /\ call' = Call("to_primitive", via, o.t, "", o, to_primitive(to_conv, o))
    /\ UNCHANGED <<connvars, conv, to_conv>>

ConvNext ==
    \/ \E via \in Receivers, t \in ConvTypeNames, fn \in ConvFns :
          register_from_primitive(via, t, fn)
    \/ \E via \in Receivers, t \in TypeObjects, fn \in ConvFns :
          register_to_primitive(via, t, fn)
    \/ \E via \in Receivers, v \in WireValues, t \in ConvTypeNames \cup {"int"} :
          call_from_primitive(via, v, t)
    \/ \E via \in Receivers, o \in NativeValues : call_to_primitive(via, o)

ConvSpec == Init /\ [][ConvNext]_vars

(* ------------------------------ properties ----------------------------- *)
\* the reply is one Metadata object of n >= 1 (name, type) pairs, then Row
\* objects of n values each, then a Status object with code OK
WellFormedReply(reply) ==
    /\ Len(reply) >= 2
    /\ reply[1].k = "list" /\ reply[1].items # <<>>
    /\ \A j \in 1..Len(reply[1].items) :
         reply[1].items[j].t = "list" /\ Len(reply[1].items[j].v) = 2
    /\ Last(reply).k = "dict" /\ Last(reply).status = <<OK>>
    /\ \A i \in 2..(Len(reply) - 1) :
         /\ reply[i].k = "list" /\ Len(reply[i].items) = Len(reply[1].items)
         /\ \A j \in 1..Len(reply[i].items) : reply[i].items[j].t = "int"

\* command c was sent when every earlier one was drained, no later command
\* has been sent, its generator is exhausted, has decoded the whole of c's
\* reply (the transport delivered it within the generator's one receive
\* sequence) and met no transport failure
DrainedAlone(c) ==
    /\ c = ncmd
    /\ hist[c].pre
    /\ gens[c].st = "done"
    /\ hist[c].got = hist[c].reply
    /\ hist[c].end[1].code # NETWORK_ERROR

\* the value of column j of a Row object, decoded under the column's type
Decoded(m, r, j) == from_primitive(conv, r[j], m[j].v[2])

\* the rows of command c are one mapping per Row object of its reply, in
\* order; Pos(m) are the positions of the Metadata m whose value the mapping
\* must hold under the position's column name
RowsAsReply(c, Pos(_)) ==
    LET reply == hist[c].reply
        m == reply[1].items
        rows == hist[c].rows
    IN  /\ hist[c].end = <<StopIteration>>
        /\ Len(rows) = Len(reply) - 2
        /\ \A i \in 1..Len(rows) :
             /\ rows[i].data = reply[i + 1]
             /\ DOMAIN rows[i].row = { m[j].v[1] : j \in 1..Len(m) }
             /\ \A j \in Pos(m) :
                  rows[i].row[m[j].v[1]] = Decoded(m, reply[i + 1].items, j)

AllPos(m) == 1..Len(m)
\* the positions after which the column's name does not occur again
LastPos(m) == { j \in 1..Len(m) : \A j2 \in (j + 1)..Len(m) : m[j2].v[1] # m[j].v[1] }

LastGot(c) == Last(hist[c].got)

\* the generator of command c has ended on a Status object whose code is
\* not OK
EndedOnStatus(c) ==
    /\ gens[c].st = "done"
    /\ hist[c].got # <<>>
    /\ LastGot(c).k = "dict"
    /\ Get(LastGot(c).status, UNKNOWN_ERROR) # OK

\* the generator of command c raised Error with this code and message
RaisedError(c, code, msg) ==
    /\ hist[c].end # <<>>
    /\ hist[c].end[1].exc = "Error"
    /\ hist[c].end[1].code = code
    /\ hist[c].end[1].msg = msg

\* C2 as stated: a Status object with a status code other than OK and a
\* message reaches the caller as Error carrying that code and that message
C2_StatusRaisesError ==
    \A c \in 1..ncmd :
        EndedOnStatus(c) /\ LastGot(c).status # <<>> /\ LastGot(c).message # <<>>
            => RaisedError(c, LastGot(c).status[1], LastGot(c).message[1])

\* C3 as stated: a Status object without a status field is raised as Error
\* with code UNKNOWN_ERROR, and a non-OK Status object without a message
\* field as Error with the message DEFAULT_MESSAGE
C3_StatusDefaults ==
    \A c \in 1..ncmd :
        /\ EndedOnStatus(c) /\ LastGot(c).status = <<>>
             => hist[c].end[1].exc = "Error" /\ hist[c].end[1].code = UNKNOWN_ERROR
        /\ EndedOnStatus(c) /\ LastGot(c).message = <<>>
             => hist[c].end[1].exc = "Error" /\ hist[c].end[1].msg = DEFAULT_MESSAGE

\* C4: an operation that met a transport failure while sending or receiving
\* has raised Error with code NETWORK_ERROR wrapping the transport's
\* exception, and the connection is closed
C4_TransportFailureCloses ==
    run = 0 /\ res.tf # ""
        => /\ res.out = Error(NETWORK_ERROR, res.tf, res.tf)
           /\ closed

\* C4's case: a receive failed in the middle of a row sequence, after a row
\* had been yielded
C4_Witness ==
    /\ run = 0 /\ res.tf # "" /\ res.op = "pull"
    /\ hist[res.c].rows # <<>>

\* C5: a generator that has started and not read yet finds the metadata
\* unset; and no row of a command that was sent after every earlier command
\* was drained is built with Metadata of an earlier command's reply
C5_NoMetadataLeak ==
    /\ \A c \in 1..ncmd : gens[c].sk = "fresh" => meta_info = <<>>
    /\ \A c \in 1..ncmd :
         hist[c].pre =>
            \A i \in 1..Len(hist[c].rows) :
               /\ hist[c].rows[i].meta # <<>>
               /\ hist[c].rows[i].meta[1].of \notin 1..(c - 1)

\* C5's case: a command whose reply held Metadata was drained, and a later
\* command has yielded a row
C5_Witness ==
    \E c \in 1..ncmd : \E b \in 1..(c - 1) :
        /\ hist[c].pre
        /\ hist[c].rows # <<>>
        /\ \E i \in 1..Len(hist[b].got) :
             hist[b].got[i].k = "list" /\ hist[b].rows # <<>>

\* C6 as stated: at most one command whose envelope has been sent has a reply
\* stream that is not fully drained
C6_OneOutstanding ==
    Cardinality({ c \in 1..ncmd : gens[c].st # "done" }) <= 1

\* a caller's operation ends in this step
Completes == run' = 0 /\ (run # 0 \/ res' # res)

\* C7 as stated: on a closed connection every operation ends with an
\* exception (the end of a sequence included) that is not Error with code
\* NETWORK_ERROR, no envelope is sent and nothing is read from the transport
C7_ClosedFailsFast ==
    [][ closed /\ obj = "live" =>
          /\ wire' = wire
          /\ ncmd' = ncmd
          /\ Completes =>
               /\ res'.out.exc # "none"
               /\ ~(res'.out.exc = "Error" /\ res'.out.code = NETWORK_ERROR) ]_vars

\* C8: self._socket is None or a Socket; once a Connection is closed it stays
\* closed; and it becomes closed only in close() or in an operation that met
\* a transport failure
C8_ClosedIsTerminal ==
    /\ [](socket \in {None, "Socket"})
    /\ [][ /\ (obj # "none" /\ closed => closed')
           /\ (~closed /\ closed' => res'.op = "close" \/ res'.tf # "") ]_vars

\* C8's case: a command was tried on a closed connection, which is still
\* closed
C8_Witness ==
    /\ obj = "live" /\ closed
    /\ res.op \in {"execute", "fetch", "drop_database"}
    /\ res.out.exc = "AttributeError"

\* C9 as stated: after close(), closed is true
C9_CloseCloses ==
    run = 0 /\ res.op = "close" => closed

\* a generator decodes a Status object whose code is not OK in this step
StatusErrorStep(c) ==
    /\ Len(hist'[c].got) = Len(hist[c].got) + 1
    /\ Last(hist'[c].got).k = "dict"
    /\ Get(Last(hist'[c].got).status, UNKNOWN_ERROR) # OK

\* C10: the step in which a non-OK Status object is decoded ends the
\* generator with an exception and leaves self._socket and the channel as
\* they were
C10_StatusErrorKeepsOpen ==
    [][ \A c \in Cmds :
          StatusErrorStep(c) =>
             /\ socket' = socket
             /\ chan' = chan
             /\ hist'[c].end # <<>>
             /\ hist'[c].end[1].exc \notin {"none", "StopIteration"} ]_vars

\* C10's case: after a command ended on a non-OK Status object, a later
\* command was sent on the open connection and has yielded a row
C10_Witness ==
    \E c \in 1..ncmd :
        /\ EndedOnStatus(c)
        /\ hist[c].got = hist[c].reply
        /\ c < ncmd
        /\ hist[ncmd].pre
        /\ hist[ncmd].rows # <<>>
        /\ ~closed

\* a decoded list that _process_reply takes for Metadata (line 139), and one
\* that it hands to _construct_row (line 143)
IsMetadata(o) == o.k = "list" /\ o.items # <<>> /\ Last(o.items).t = "list"
IsRow(o) == o.k = "list" /\ ~IsMetadata(o)

\* the i-th object the generator of command c decoded is a Row object and no
\* Metadata object was decoded before it
RowBeforeMetadata(c, i) ==
    /\ IsRow(hist[c].got[i])
    /\ \A j \in 1..(i - 1) : ~IsMetadata(hist[c].got[j])

\* the generator of command c raised an exception when it processed the
\* last object it decoded
RaisedAtLast(c) ==
    /\ hist[c].end # <<>>
    /\ hist[c].end[1].exc # "StopIteration"
    /\ hist[c].end[1].code # NETWORK_ERROR

\* C11 as stated: a Row object decoded before any Metadata object of the same
\* command's reply raises nothing
C11_RowBeforeMetadataNoRaise ==
    \A c \in 1..ncmd : \A i \in 1..Len(hist[c].got) :
        hist[c].pre /\ RowBeforeMetadata(c, i)
            => ~(i = Len(hist[c].got) /\ RaisedAtLast(c))

\* the reply of command c holds a Status object whose code is not OK
ReplyHasError(c) ==
    \E i \in 1..Len(hist[c].reply) :
        /\ hist[c].reply[i].k = "dict"
        /\ Get(hist[c].reply[i].status, UNKNOWN_ERROR) # OK

\* command c is a connect or drop command and control is back at the caller
Returned(c) == hist[c].ep \in {"connect", "drop"} /\ run # c

Registered(reg, reg2, key, fn) ==
    /\ DOMAIN reg2 = DOMAIN reg \cup {key}
    /\ reg2[key] = fn
    /\ \A k \in DOMAIN reg \ {key} : reg2[k] = reg[k]

\* C13: a conversion returns fn(v) for the converter fn under exactly the key
\* looked up (type(v), or the type name) and v itself when there is none; a
\* registration sets its key, replacing the converter the key had, and only
\* a registration changes a registry; and a conversion that follows a
\* registration of its key, through whatever receiver either was called,
\* applies the converter just registered
C13_ExactKeyRegistry ==
    /\ [](call.op = "from_primitive" =>
            call.result = IF call.key \in DOMAIN conv
                          THEN Apply(conv[call.key], call.arg) ELSE call.arg)
    /\ [](call.op = "to_primitive" =>
            call.result = IF call.arg.t \in DOMAIN to_conv
                          THEN Apply(to_conv[call.arg.t], call.arg) ELSE call.arg)
    /\ [][ /\ call' # call /\ call'.op = "register_from_primitive"
                => Registered(conv, conv', call'.key, call'.fn) /\ to_conv' = to_conv
           /\ call' # call /\ call'.op = "register_to_primitive"
                => Registered(to_conv, to_conv', call'.key, call'.fn) /\ conv' = conv
           /\ call' = call \/ call'.op \in {"from_primitive", "to_primitive"}
                => conv' = conv /\ to_conv' = to_conv
           /\ call.op = "register_from_primitive" /\ call'.op = "from_primitive"
                /\ call'.key = call.key
                => call'.result = Apply(call.fn, call'.arg)
           /\ call.op = "register_to_primitive" /\ call'.op = "to_primitive"
                /\ call'.arg.t = call.key
                => call'.result = Apply(call.fn, call'.arg) ]_vars

\* C13's case: converters are registered for date under both registries, the
\* one for results replaced by a second one, and a datetime value, whose type
\* is a subclass of date and has no converter of its own, was handed to
\* to_primitive through an instance and came back unchanged
C13_Witness ==
    /\ call.op = "to_primitive" /\ call.via = "self"
    /\ call.arg.t = "datetime"
    /\ "date" \in DOMAIN to_conv /\ "datetime" \notin DOMAIN to_conv
    /\ "date" \in DOMAIN conv /\ conv["date"] = "to_iso"
    /\ call.result = call.arg

\* a Row object that holds values
RowWithValues(o) == IsRow(o) /\ o.items # <<>>
\* the objects the rows of a row sequence were built from
RowObjects(rows) == [i \in 1..Len(rows) |-> rows[i].data]

C15_RowPerRowObject ==
    \A c \in 1..ncmd :
        DrainedAlone(c) /\ hist[c].end = <<StopIteration>>
            => RowObjects(hist[c].rows) = SelectSeq(hist[c].reply, IsRow)

\* command c was sent when every earlier one was drained and no later
\* command has been sent
Alone(c) == hist[c].pre /\ c = ncmd

\* the places in got of the Metadata objects the generator of command c
\* decoded before the object at place `at`, and the last of them
MetaPlaces(c, at) == { j \in 1..(at - 1) : IsMetadata(hist[c].got[j]) }
MetaBefore(c, at) ==
    hist[c].got[CHOOSE j \in MetaPlaces(c, at) : \A k \in MetaPlaces(c, at) : k <= j]

\* the yielded row `it` is the zip of the Metadata m with the Row object the
\* row was built from, cut to the shorter of the two: its keys are the names
\* at the positions kept, and it maps the name at each position of Pos to
\* the value at that position, decoded under the type at that position
ZippedRow(it, m, Pos(_)) ==
    LET d == it.data.items
        n == Min(Len(m), Len(d))
        mm == SubSeq(m, 1, n)
    IN  /\ DOMAIN it.row = { mm[j].v[1] : j \in 1..n }
        /\ \A j \in Pos(mm) : it.row[mm[j].v[1]] = from_primitive(conv, d[j], mm[j].v[2])

RecvResumed(c) == run = c /\ gens[c].pos = "outer" /\ vars' # vars

\* the read of this step returned the first n units on the transport, and
\* Socket.recv yielded them as one chunk to the unpacker of command c
ReadChunk(c, n) ==
    /\ n <= Len(wire)
    /\ wire' = SubSeq(wire, n + 1, Len(wire))
    /\ gens'[c].unp = gens[c].unp \o SubSeq(wire, 1, n)

\* C17: a resumed receive sequence that last yielded a short chunk ends
\* without a read; otherwise it reads once and either yields the non-empty
\* chunk the read returned, of at most the read size, or ends because the
\* read returned nothing or failed; it ends in no other step; once ended it
\* stays ended, reads nothing, and takes up nothing that arrives later, which
\* stays on the transport
C17_ReceiveSequence ==
    [][ \A c \in Cmds :
          /\ RecvResumed(c) =>
               IF gens[c].sk = "short"
               THEN gens'[c].sk = "done" /\ wire' = wire
               ELSE \/ \E n \in 1..BufSize :
                         /\ ReadChunk(c, n)
                         /\ gens'[c].sk = (IF n < BufSize THEN "short" ELSE "full")
                    \/ wire = <<>> /\ wire' = wire /\ gens'[c].sk = "done"
                    \/ res'.tf # "" /\ wire' = wire /\ gens'[c].sk = "done"
          /\ ~RecvResumed(c) =>
               /\ gens'[c].sk = "done" <=> gens[c].sk = "done"
               /\ run = c => wire' = wire
          /\ gens[c].sk = "done" =>
               /\ gens'[c].sk = "done"
               /\ gens'[c].unp = gens[c].unp
               /\ run = c => wire' = wire ]_vars

\* C17's case: the receive sequence of a command ended after a short chunk
\* with the rest of the command's reply still to come, and the receive
\* sequence of a later command has read what was left
C17_Witness ==
    \E c \in 1..ncmd : \E c2 \in (c + 1)..ncmd :
        /\ gens[c].sk = "done"
        /\ hist[c].end = <<StopIteration>>
        /\ Len(hist[c].got) < Len(hist[c].reply)
        /\ gens[c2].sk \in {"short", "full"}
        /\ hist[c2].got # <<>>
        /\ hist[c2].got[1].of = c

\* C18: when execute or fetch has returned a sequence, its envelope is sent
\* and its generator has not started, so has read and raised nothing; the
\* step that sends the envelope reads nothing; a read from the transport
\* happens only while a generator runs, list() driving it or the caller's
\* pull of that generator in progress; and a sequence ends, with an error or
\* without, only in such a step of its own generator
C18_PullDriven ==
    /\ [](run = 0 /\ res.op \in {"execute", "fetch"} /\ res.c # 0 =>
            /\ res.out = NoExc
            /\ hist[res.c].ep = "query"
            /\ gens[res.c].st = "new"
            /\ hist[res.c].got = <<>> /\ hist[res.c].end = <<>>)
    /\ [][ /\ ncmd' # ncmd => wire' = wire \o hist'[ncmd'].reply
           /\ ncmd' = ncmd /\ wire' # wire =>
                /\ run # 0
                /\ gens[run].drv = "list" \/ (res.op = "pull" /\ res.c = run)
           /\ \A c \in Cmds :
                hist[c].end = <<>> /\ hist'[c].end # <<>> =>
                    /\ run = c
                    /\ gens[c].drv = "list" \/ (res.op = "pull" /\ res.c = c) ]_vars

\* C18's case: a sequence whose reply ends in a non-OK status was pulled
\* until it had yielded a row and then left; the caller has closed the
\* connection, and the error was never raised
C18_Witness ==
    \E c \in 1..ncmd :
        /\ gens[c].st = "susp"
        /\ hist[c].rows # <<>>
        /\ ReplyHasError(c)
        /\ hist[c].end = <<>>
        /\ run = 0 /\ res.op = "close" /\ closed

\* C19 as stated: every row a command's sequence has yielded was built from
\* a Row object and under a Metadata object that the server sent in reply to
\* that command
C19_RowsOfOwnReply ==
    \A c \in 1..ncmd : \A i \in 1..Len(hist[c].rows) :
        /\ hist[c].rows[i].data.of = c
        /\ hist[c].rows[i].meta[1].of = c

\* C20 as stated: a command sent when nothing was left of earlier replies,
\* whose sequence was drained to its end without a transport failure, has
\* decoded exactly the objects of its reply, however the reads cut the reply
\* into chunks, and nothing of the reply is left on the transport
C20_ChunkingIrrelevant ==
    \A c \in 1..ncmd :
        /\ hist[c].pre
        /\ gens[c].st = "done"
        /\ hist[c].end[1].exc \in {"StopIteration"}
        => /\ hist[c].got = hist[c].reply
           /\ \A k \in 1..Len(wire) : wire[k].of # c

====
